---------------------------- MODULE Spec2Model ----------------------------
(***************************************************************************)
(* A model of the auto-link plugin of src/main.ts: the term index          *)
(* (linkCache), the vault scan that fills it, the line and paste handlers  *)
(* that rewrite indexed words into [[word]] references, and the history    *)
(* stack behind "Undo Last Auto Link".                                     *)
(*                                                                         *)
(* A JavaScript string is modelled as a sequence of one-character strings: *)
(* the string "a b" is <<"a", " ", "b">>.  Positions are 0-based as in the *)
(* source; sequences are 1-based, so character ch of a line is line[ch+1]. *)
(***************************************************************************)
EXTENDS Integers, Sequences, FiniteSets, TLC

VARIABLES
    settings,       \* this.settings (main.ts:27)
    linkCache,      \* this.linkCache (main.ts:28): term -> path
    changeHistory,  \* this.changeHistory (main.ts:29)
    files,          \* app.vault.getMarkdownFiles(): the paths, in scan order
    docs,           \* the text of every document: path -> sequence of lines
    view,           \* the active MarkdownView: a path, NoFile or NoView
    cursor,         \* editor.getCursor().line of the active editor
    scan,           \* the scanVaultForLinks calls in flight
    notices,        \* the Notice objects created by the last operation
    last            \* the last operation and the state before its last rewrite

vars == <<settings, linkCache, changeHistory, files, docs, view, cursor,
          scan, notices, last>>

-----------------------------------------------------------------------------
(* Strings *)

\* The upper-case letters and their String.prototype.toLowerCase images.
LowerOf ==
    [c \in {"A","B","C","D","E","F","G","H","I","J","K","L","M","N","O","P",
            "Q","R","S","T","U","V","W","X","Y","Z"} |->
        CASE c = "A" -> "a" [] c = "B" -> "b" [] c = "C" -> "c" [] c = "D" -> "d"
          [] c = "E" -> "e" [] c = "F" -> "f" [] c = "G" -> "g" [] c = "H" -> "h"
          [] c = "I" -> "i" [] c = "J" -> "j" [] c = "K" -> "k" [] c = "L" -> "l"
          [] c = "M" -> "m" [] c = "N" -> "n" [] c = "O" -> "o" [] c = "P" -> "p"
          [] c = "Q" -> "q" [] c = "R" -> "r" [] c = "S" -> "s" [] c = "T" -> "t"
          [] c = "U" -> "u" [] c = "V" -> "v" [] c = "W" -> "w" [] c = "X" -> "x"
          [] c = "Y" -> "y" [] c = "Z" -> "z"]

\* s.toLowerCase()
ToLowerCase(s) ==
    [i \in 1..Len(s) |-> IF s[i] \in DOMAIN LowerOf THEN LowerOf[s[i]] ELSE s[i]]

\* The characters the regular expression's \s matches.
IsSpace(c) == c \in {" ", "\n", "\t"}

\* The character class of the cleaning regular expression (main.ts:131 and
\* 223).  The class also holds the backquote, which SANY cannot read inside
\* a string literal; no text of this model contains one.
Punctuation ==
    {".", ",", "/", "#", "!", "$", "%", "^", "&", "*", ";", ":", "{", "}",
     "=", "-", "_", "~", "(", ")", "[", "]"}

RECURSIVE SplitFrom(_, _, _, _, _)
\* The scan of s.split(/\s+/) from character i: cur is the word being read,
\* acc the words closed so far, inWs whether character i-1 was white space.
SplitFrom(s, i, cur, acc, inWs) ==
    IF i > Len(s) THEN Append(acc, cur)
    ELSE IF IsSpace(s[i])
         THEN IF inWs THEN SplitFrom(s, i + 1, cur, acc, TRUE)
              ELSE SplitFrom(s, i + 1, <<>>, Append(acc, cur), TRUE)
         ELSE SplitFrom(s, i + 1, Append(cur, s[i]), acc, FALSE)

\* s.split(/\s+/): a leading or trailing run of white space yields an empty
\* first or last word, and the empty string yields one empty word.
Split(s) == SplitFrom(s, 1, <<>>, <<>>, FALSE)

\* A strip that removes one leading punctuation character at most.
StripLeadingOne(w) == IF w # <<>> /\ Head(w) \in Punctuation THEN Tail(w) ELSE w

RECURSIVE StripLeading(_)
\* The match of ^[punctuation]* removed.
StripLeading(w) ==
    IF w # <<>> /\ Head(w) \in Punctuation THEN StripLeading(Tail(w)) ELSE w

RECURSIVE StripTrailing(_)
\* The match of [punctuation]*$ removed.
StripTrailing(w) ==
    IF w # <<>> /\ w[Len(w)] \in Punctuation
    THEN StripTrailing(SubSeq(w, 1, Len(w) - 1))
    ELSE w

\* word.replace(/^[punct]*|[punct]*$/g, empty string)
CleanWord(word) == StripTrailing(StripLeading(word))

\* line.indexOf(word): the 0-based offset of the first occurrence, or -1.
IndexOf(line, word) ==
    LET hits == {i \in 0..(Len(line) - Len(word)) :
                    SubSeq(line, i + 1, i + Len(word)) = word}
    IN  IF hits = {} THEN -1
        ELSE CHOOSE i \in hits : \A j \in hits : i <= j

\* word.includes(sub)
Includes(word, sub) == IndexOf(word, sub) >= 0

\* The markers [[ and ]] and the link text, the word between the markers.
OpenMarker == <<"[", "[">>
CloseMarker == <<"]", "]">>
LinkedText(word) == OpenMarker \o word \o CloseMarker

-----------------------------------------------------------------------------
(* The editor: a document is a non-empty sequence of lines *)

\* An EditorPosition {line, ch}, both 0-based.
Pos(l, c) == [line |-> l, ch |-> c]

Min(a, b) == IF a <= b THEN a ELSE b
Max(a, b) == IF a >= b THEN a ELSE b

\* The editor clips a position to the document: a line past the last one is
\* the end of the document, a column past the end of its line is that end.
ClipPos(doc, pos) ==
    IF pos.line < 0 THEN Pos(0, 0)
    ELSE IF pos.line >= Len(doc) THEN Pos(Len(doc) - 1, Len(doc[Len(doc)]))
    ELSE Pos(pos.line, Max(0, Min(pos.ch, Len(doc[pos.line + 1]))))

\* editor.replaceRange(text, startPos, endPos), for the calls of main.ts:167
\* and 199: text holds no line break and both positions are on one line.
ReplaceRange(doc, text, startPos, endPos) ==
    LET from == ClipPos(doc, startPos)
        to   == ClipPos(doc, endPos)
        old  == doc[from.line + 1]
    IN  [doc EXCEPT ![from.line + 1] =
            SubSeq(old, 1, from.ch) \o text \o SubSeq(old, to.ch + 1, Len(old))]

\* editor.getLine(n)
GetLine(doc, n) == IF n >= 0 /\ n < Len(doc) THEN doc[n + 1] ELSE <<>>

RECURSIVE JoinLines(_, _)
\* The lines from line i on, joined by line breaks.
JoinLines(doc, i) ==
    IF i > Len(doc) THEN <<>>
    ELSE IF i = Len(doc) THEN doc[i]
    ELSE doc[i] \o <<"\n">> \o JoinLines(doc, i + 1)

\* vault.read(file): the full text of a document.
Content(doc) == JoinLines(doc, 1)

RECURSIVE SplitLinesFrom(_, _, _, _)
SplitLinesFrom(s, i, cur, acc) ==
    IF i > Len(s) THEN Append(acc, cur)
    ELSE IF s[i] = "\n" THEN SplitLinesFrom(s, i + 1, <<>>, Append(acc, cur))
    ELSE SplitLinesFrom(s, i + 1, Append(cur, s[i]), acc)

\* text.split('\n')
SplitLines(s) == SplitLinesFrom(s, 1, <<>>, <<>>)

-----------------------------------------------------------------------------
(* Values *)

\* What getActiveViewOfType returns when no markdown view is active, and the
\* view whose file is null.
NoView == "no view"
NoFile == "no file"

\* What Map.get returns for a missing key.
Undefined == "undefined"

\* linkCache.get(key)
CacheGet(cache, key) == IF key \in DOMAIN cache THEN cache[key] ELSE Undefined

\* The empty Map of main.ts:28.
EmptyCache == [k \in {} |-> Undefined]

\* new Notice(...): the message's kind and the values it names.
Notice(kind, word, target) == [kind |-> kind, word |-> word, target |-> target]

\* The words 'the', 'and', 'but', 'for' of DEFAULT_SETTINGS.ignoredWords.
DefaultIgnoredWords ==
    {<<"t","h","e">>, <<"a","n","d">>, <<"b","u","t">>, <<"f","o","r">>}

DEFAULT_SETTINGS ==
    [minWordLength   |-> 3,
     ignoredWords    |-> DefaultIgnoredWords,
     caseSensitive   |-> FALSE,
     scanOnLoad      |-> TRUE,
     autoLinkEnabled |-> TRUE]

-----------------------------------------------------------------------------
(* The term index *)

\* A test that looks the clean word up in the ignored words as it is
\* written.
MeetsCriteriaRawCase(cleanWord, s) ==
    /\ Len(cleanWord) >= s.minWordLength
    /\ cleanWord \notin s.ignoredWords

\* cleanWord.length >= minWordLength && !ignoredWords.includes(lower-cased
\* clean word), the test of updateLinkCache.
MeetsCriteria(cleanWord, s) ==
    /\ Len(cleanWord) >= s.minWordLength
    /\ ToLowerCase(cleanWord) \notin s.ignoredWords

\* The key a word is stored under.
CacheKey(cleanWord, s) ==
    IF s.caseSensitive THEN cleanWord ELSE ToLowerCase(cleanWord)

\* A set that keeps the owner a key already has.
CacheSetKeepFirst(cache, key, filePath) ==
    [k \in DOMAIN cache \cup {key} |->
        IF k \in DOMAIN cache THEN cache[k] ELSE filePath]

\* A set that removes a key owned by another document: a write whose
\* repetition does not give the same Map.
CacheSetDropConflict(cache, key, filePath) ==
    IF key \in DOMAIN cache /\ cache[key] # filePath
    THEN [k \in DOMAIN cache \ {key} |-> cache[k]]
    ELSE [k \in DOMAIN cache \cup {key} |-> filePath]

\* linkCache.set(key, filePath): the key is added or its owner overwritten.
CacheSet(cache, key, filePath) ==
    [k \in DOMAIN cache \cup {key} |-> IF k = key THEN filePath ELSE cache[k]]

RECURSIVE UpdateWords(_, _, _, _, _)
\* The forEach of updateLinkCache, from word i on.
UpdateWords(cache, words, i, filePath, s) ==
    IF i > Len(words) THEN cache
    ELSE LET cleanWord == CleanWord(words[i])
         IN  UpdateWords(
                 IF MeetsCriteria(cleanWord, s)
                 THEN CacheSet(cache, CacheKey(cleanWord, s), filePath)
                 ELSE cache,
                 words, i + 1, filePath, s)

\* An update that builds a new Map from the words of the one document.
UpdateLinkCacheFresh(cache, content, filePath, s) ==
    UpdateWords(EmptyCache, Split(content), 1, filePath, s)

\* updateLinkCache(content, filePath)
UpdateLinkCache(cache, content, filePath, s) ==
    UpdateWords(cache, Split(content), 1, filePath, s)

-----------------------------------------------------------------------------
(* Rewriting a line: processLineForLinks *)

\* The state a handler threads through its rewrites: the active editor's
\* document, the history stack, the notices created, and, for the last
\* rewrite applied, the document and the stack right before it.
HandlerState(doc, history) ==
    [doc |-> doc, history |-> history, notices |-> <<>>,
     rewrites |-> 0, preDoc |-> doc, preHistory |-> history]

\* The filter without its length test.
PassesFiltersAnyLength(cleanWord, searchWord, s) ==
    searchWord \notin s.ignoredWords

\* cleanWord.length >= minWordLength && !ignoredWords.includes(searchWord)
PassesFilters(cleanWord, searchWord, s) ==
    /\ Len(cleanWord) >= s.minWordLength
    /\ searchWord \notin s.ignoredWords

\* The test without the comparison with the current file's path.
IsLinkableToSelf(word, linkedFilePath, currentFilePath) ==
    /\ linkedFilePath # Undefined
    /\ ~Includes(word, OpenMarker)
    /\ ~Includes(word, CloseMarker)

\* The test without the look for the markers in the word.
IsLinkableWhenLinked(word, linkedFilePath, currentFilePath) ==
    /\ linkedFilePath # Undefined
    /\ linkedFilePath # currentFilePath

\* The word is in the cache, owned by another document, and is no link yet.
IsLinkable(word, linkedFilePath, currentFilePath) ==
    /\ linkedFilePath # Undefined
    /\ linkedFilePath # currentFilePath
    /\ ~Includes(word, OpenMarker)
    /\ ~Includes(word, CloseMarker)

\* The body of the if: the history entry is pushed, the span found by
\* indexOf in the line as it was passed is replaced in the editor, and the
\* notice is created.
ApplyLink(st, word, line, lineNumber, linkedFilePath, currentFilePath) ==
    LET lineUpToWord == SubSeq(line, 1, IndexOf(line, word))
        startPos == Pos(lineNumber, Len(lineUpToWord))
        endPos   == Pos(lineNumber, Len(lineUpToWord) + Len(word))
    IN  [doc        |-> ReplaceRange(st.doc, LinkedText(word), startPos, endPos),
         history    |-> Append(st.history,
                          [text |-> word, position |-> startPos,
                           file |-> currentFilePath]),
         notices    |-> Append(st.notices, Notice("linked", word, linkedFilePath)),
         rewrites   |-> st.rewrites + 1,
         preDoc     |-> st.doc,
         preHistory |-> st.history]

RECURSIVE ProcessWords(_, _, _, _, _, _, _, _)
\* The for loop of processLineForLinks, from word i (1-based) on.
ProcessWords(st, words, i, line, lineNumber, currentFilePath, cache, s) ==
    IF i > Len(words) THEN st
    ELSE LET word == words[i]
             cleanWord == CleanWord(word)
             searchWord == IF s.caseSensitive THEN cleanWord
                           ELSE ToLowerCase(cleanWord)
             linkedFilePath == CacheGet(cache, searchWord)
         IN  ProcessWords(
                 IF /\ PassesFilters(cleanWord, searchWord, s)
                    /\ IsLinkable(word, linkedFilePath, currentFilePath)
                 THEN ApplyLink(st, word, line, lineNumber, linkedFilePath,
                                currentFilePath)
                 ELSE st,
                 words, i + 1, line, lineNumber, currentFilePath, cache, s)

\* processLineForLinks(editor, line, lineNumber) with active view v.
ProcessLineForLinks(st, line, lineNumber, v, cache, s) ==
    IF v = NoView THEN st
    ELSE IF v = NoFile THEN st
    ELSE ProcessWords(st, Split(line), 1, line, lineNumber, v, cache, s)

\* handleEditorChange(editor): the cursor's line is read and processed.
HandleEditorChange(st, cur, v, cache, s) ==
    ProcessLineForLinks(st, GetLine(st.doc, cur), cur, v, cache, s)

RECURSIVE ProcessLines(_, _, _, _, _, _, _)
\* The for loop of processTextForLinks, from line i (0-based) on.
ProcessLines(st, lines, i, cur, v, cache, s) ==
    IF i >= Len(lines) THEN st
    ELSE ProcessLines(
             ProcessLineForLinks(st, lines[i + 1], cur + i, v, cache, s),
             lines, i + 1, cur, v, cache, s)

\* processTextForLinks(editor, text)
ProcessTextForLinks(st, text, cur, v, cache, s) ==
    ProcessLines(st, SplitLines(text), 0, cur, v, cache, s)

\* handlePaste(evt, editor): nothing is done for an empty clipboard text.
HandlePaste(st, pastedText, cur, v, cache, s) ==
    IF pastedText # <<>>
    THEN ProcessTextForLinks(st, pastedText, cur, v, cache, s)
    ELSE st

\* The callback without the test of autoLinkEnabled.
OnEditorChangeUngated(st, cur, v, cache, s) ==
    HandleEditorChange(st, cur, v, cache, s)

\* The editor-change callback of onload.
OnEditorChange(st, cur, v, cache, s) ==
    IF s.autoLinkEnabled THEN HandleEditorChange(st, cur, v, cache, s) ELSE st

\* The editor-paste callback of onload.
OnEditorPaste(st, pastedText, cur, v, cache, s) ==
    IF s.autoLinkEnabled THEN HandlePaste(st, pastedText, cur, v, cache, s)
    ELSE st

-----------------------------------------------------------------------------
(* Undo: undoLastLink *)

\* An undo that creates its notice whatever it popped.
UndoLastLinkNoisy(st, v) ==
    LET n == Len(st.history)
        popped == [st EXCEPT !.history = SubSeq(st.history, 1, n - 1),
                             !.notices = Append(st.notices,
                                                Notice("undid", <<>>, Undefined))]
    IN  IF n = 0 \/ v \in {NoView, NoFile} \/ st.history[n].file # v THEN popped
        ELSE [popped EXCEPT !.doc =
                ReplaceRange(st.doc, st.history[n].text, st.history[n].position,
                             Pos(st.history[n].position.line,
                                 st.history[n].position.ch
                                     + Len(st.history[n].text) + 4))]

\* An undo that does not compare the entry's file with the active one.
UndoLastLinkAnyFile(st, v) ==
    LET n == Len(st.history)
        popped == [st EXCEPT !.history = SubSeq(st.history, 1, n - 1)]
    IN  IF n = 0 THEN st
        ELSE IF v \in {NoView, NoFile} THEN popped
        ELSE [popped EXCEPT
                !.doc = ReplaceRange(st.doc, st.history[n].text,
                                     st.history[n].position,
                                     Pos(st.history[n].position.line,
                                         st.history[n].position.ch
                                             + Len(st.history[n].text) + 4)),
                !.notices = Append(st.notices, Notice("undid", <<>>, Undefined))]

\* An undo that takes the oldest entry of the stack, not the newest.
UndoLastLinkShift(st, v) ==
    IF st.history = <<>> THEN st
    ELSE LET lastChange == Head(st.history)
             popped == [st EXCEPT !.history = Tail(st.history)]
             startPos == lastChange.position
             endPos == Pos(startPos.line,
                           startPos.ch + Len(lastChange.text) + 4)
         IN  IF v = NoView THEN popped
             ELSE IF v # NoFile /\ v = lastChange.file
             THEN [popped EXCEPT
                     !.doc = ReplaceRange(st.doc, lastChange.text, startPos, endPos),
                     !.notices = Append(st.notices,
                                        Notice("undid", <<>>, Undefined))]
             ELSE popped

\* undoLastLink() with active view v on the handler state st.
UndoLastLink(st, v) ==
    IF st.history = <<>> THEN st
    ELSE LET lastChange == st.history[Len(st.history)]
             popped == [st EXCEPT
                          !.history = SubSeq(st.history, 1, Len(st.history) - 1)]
             startPos == lastChange.position
             endPos == Pos(startPos.line,
                           startPos.ch + Len(lastChange.text) + 4)
         IN  IF v = NoView THEN popped
             ELSE IF v # NoFile /\ v = lastChange.file
             THEN [popped EXCEPT
                     !.doc = ReplaceRange(st.doc, lastChange.text, startPos, endPos),
                     !.notices = Append(st.notices,
                                        Notice("undid", <<>>, Undefined))]
             ELSE popped

-----------------------------------------------------------------------------
(* Bounds and inputs *)

\* Handlers are not run on a history stack that already holds MaxHistory
\* entries, nor on a document with a line longer than MaxLineLen.
MaxHistory == 2
MaxLineLen == 12
\* The calls of scanVaultForLinks that may be in flight together.
MaxScans == 2

\* Raw words given to the normalisation have at most MaxWordLen characters.
MaxWordLen == 3

\* Change events are repeated on a line until MaxRepeat rewrites have been
\* applied to it.
MaxRepeat == 5

ScanIds == 1..MaxScans

Apple == "apple.md"
Other == "other.md"
Third == "third.md"

\* Raw words: plain, upper case, with punctuation, a link, in brackets.
RawWords ==
    {<<"a">>, <<"b">>, <<"A">>, <<"a", ".">>,
     <<"[", "[", "a", "]", "]">>, <<"[", "a", "]">>}

\* Lines of one or two raw words, and lines with leading, trailing and
\* doubled white space.
Lines ==
    RawWords
    \cup {w1 \o <<" ">> \o w2 : w1 \in RawWords, w2 \in RawWords}
    \cup {<<>>, <<" ", "a">>, <<"a", " ">>, <<"a", " ", " ", "b">>}

\* The text of the document being edited: one line, or two.
Texts ==
    {<<l>> : l \in Lines}
    \cup {<<<<"a">>, <<"b">>>>, <<<<"b">>, <<"a", " ", "a">>>>}

\* Clipboard texts: empty, one line, two lines.
PasteTexts ==
    {<<>>, <<"a">>, <<"a", " ", "b">>, <<"b", "\n", "a">>}

\* What loadData() may return: nothing, or some of the fields.
LoadedData ==
    {[k \in {} |-> 0],
     [minWordLength |-> 1],
     [minWordLength |-> 1, caseSensitive |-> TRUE],
     [minWordLength |-> 1, ignoredWords |-> {<<"b">>}]}

\* Object.assign({}, DEFAULT_SETTINGS, data)
LoadSettings(data) ==
    [k \in DOMAIN DEFAULT_SETTINGS |->
        IF k \in DOMAIN data THEN data[k] ELSE DEFAULT_SETTINGS[k]]

\* The indexes left by earlier scans: each of the terms a and b is absent
\* or owned by one of the two documents; A is a key stored while
\* caseSensitive was set.
InitCaches ==
    UNION {[ks -> {Apple, Other}] : ks \in SUBSET {<<"a">>, <<"b">>}}
    \cup {[k \in {<<"A">>, <<"b">>} |-> Apple]}

\* last: which operation ran last, how many rewrites it applied, and the
\* active document and the history stack before its last rewrite (before
\* the operation itself when it applied none).
LastOf(op, st) ==
    [op |-> op, rewrites |-> st.rewrites, preDoc |-> st.preDoc,
     preHistory |-> st.preHistory]

NoLast == [op |-> "none", rewrites |-> 0, preDoc |-> <<>>, preHistory |-> <<>>]

\* A call of scanVaultForLinks not yet made: its position, its file list
\* and its loop index; overlapped observes whether another call was waiting
\* for a read while this one ran.
IdleScan == [pc |-> "idle", files |-> <<>>, i |-> 0, overlapped |-> FALSE]

\* The document of the active editor.
ActiveDoc == IF view \in DOMAIN docs THEN docs[view] ELSE <<<<>>>>

\* The state a handler starts from.
Before == HandlerState(ActiveDoc, changeHistory)

\* The editor's document after a handler that ended in state st.
DocsAfter(st) ==
    IF view \in DOMAIN docs THEN [docs EXCEPT ![view] = st.doc] ELSE docs

\* The handlers that rewrite are run within the bounds.
WithinBounds ==
    /\ Len(changeHistory) < MaxHistory
    /\ \A n \in DOMAIN ActiveDoc : Len(ActiveDoc[n]) <= MaxLineLen

-----------------------------------------------------------------------------
(* The editing state machine *)

\* The plugin is loaded, the index is what earlier scans left, the document
\* other.md holds the text under edit and is the active view.
Init ==
    /\ settings \in {LoadSettings(d) : d \in LoadedData}
    /\ linkCache \in InitCaches
    /\ changeHistory = <<>>
    /\ files = <<Apple, Other>>
    /\ docs \in {[p \in {Apple, Other} |->
                    IF p = Other THEN t ELSE <<<<"b", " ", "a">>>>] : t \in Texts}
    /\ view = Other
    /\ cursor = 0
    /\ scan = [id \in ScanIds |-> IdleScan]
    /\ notices = <<>>
    /\ last = NoLast

\* The workspace fires editor-change.
EditorChange ==
    /\ settings.autoLinkEnabled => WithinBounds
    /\ LET st == OnEditorChange(Before, cursor, view, linkCache, settings)
       IN  /\ docs' = DocsAfter(st)
           /\ changeHistory' = st.history
           /\ notices' = st.notices
           /\ last' = LastOf("change", st)
    /\ UNCHANGED <<settings, linkCache, files, view, cursor, scan>>

\* The workspace fires editor-paste with the clipboard text.
EditorPaste(pastedText) ==
    /\ settings.autoLinkEnabled => WithinBounds
    /\ LET st == OnEditorPaste(Before, pastedText, cursor, view, linkCache,
                               settings)
       IN  /\ docs' = DocsAfter(st)
           /\ changeHistory' = st.history
           /\ notices' = st.notices
           /\ last' = LastOf("paste", st)
    /\ UNCHANGED <<settings, linkCache, files, view, cursor, scan>>

\* The command undo-last-autolink.
UndoLastAutoLink ==
    /\ LET st == UndoLastLink(Before, view)
       IN  /\ docs' = DocsAfter(st)
           /\ changeHistory' = st.history
           /\ notices' = st.notices
           /\ last' = LastOf("undo", st)
    /\ UNCHANGED <<settings, linkCache, files, view, cursor, scan>>

\* The command toggle-auto-linking.
ToggleAutoLinking ==
    /\ settings' = [settings EXCEPT !.autoLinkEnabled = ~settings.autoLinkEnabled]
    /\ notices' = <<Notice("toggled", <<>>, Undefined)>>
    /\ last' = NoLast
    /\ UNCHANGED <<linkCache, changeHistory, files, docs, view, cursor, scan>>

\* The user activates another view: a document, a view without a file, or
\* a view that is no markdown view.
OpenView(v) ==
    /\ v # view
    /\ view' = v
    /\ cursor' = 0
    /\ notices' = <<>>
    /\ last' = NoLast
    /\ UNCHANGED <<settings, linkCache, changeHistory, files, docs, scan>>

\* The user moves the cursor to another line of the active document.
MoveCursor(n) ==
    /\ view \in DOMAIN docs
    /\ n \in 0..(Len(docs[view]) - 1)
    /\ n # cursor
    /\ cursor' = n
    /\ notices' = <<>>
    /\ last' = NoLast
    /\ UNCHANGED <<settings, linkCache, changeHistory, files, docs, view, scan>>

\* Editing the active document: change events, pastes, undo, the toggle
\* command and cursor moves.
Next ==
    \/ EditorChange
    \/ \E t \in PasteTexts : EditorPaste(t)
    \/ UndoLastAutoLink
    \/ ToggleAutoLinking
    \/ \E n \in 0..1 : MoveCursor(n)

Spec == Init /\ [][Next]_vars

\* Editing while the active view changes.
NextView ==
    \/ EditorChange
    \/ UndoLastAutoLink
    \/ \E v \in {Apple, Other, NoFile, NoView} : OpenView(v)

SpecView == Init /\ [][NextView]_vars

-----------------------------------------------------------------------------
(* The vault scan: scanVaultForLinks *)

\* The document with the text The Banana Tree.
BananaTree ==
    <<<<"T", "h", "e", " ", "B", "a", "n", "a", "n", "a", " ",
       "T", "r", "e", "e">>>>

\* The documents of the vault when it is scanned.
VaultTexts ==
    {<<<<"a">>>>, <<<<"b">>>>, <<<<"a", " ", "b">>>>, <<<<"A", ".">>>>,
     BananaTree, <<<<"b">>, <<"a">>>>}

VaultFiles == {<<Apple, Other>>, <<Other, Apple, Third>>}

Range(seq) == {seq[i] : i \in DOMAIN seq}

\* The plugin is loaded over a vault, with an empty index and no scan
\* started.
InitScan ==
    /\ settings \in {LoadSettings(d) : d \in LoadedData}
    /\ linkCache = EmptyCache
    /\ changeHistory = <<>>
    /\ files \in VaultFiles
    /\ docs \in [Range(files) -> VaultTexts]
    /\ view = NoView
    /\ cursor = 0
    /\ scan = [id \in ScanIds |-> IdleScan]
    /\ notices = <<>>
    /\ last = NoLast

\* No call of scanVaultForLinks is waiting for a read.
NoScanReading == \A id \in ScanIds : scan[id].pc # "reading"

\* scanVaultForLinks is called (by onload, the ribbon icon or the command):
\* the file list is taken and the first read is started; with no file the
\* loop is skipped and the notice created.
StartScan(id) ==
    /\ scan[id].pc = "idle"
    /\ scan' = [o \in ScanIds |->
                  IF o = id
                  THEN [pc |-> IF files = <<>> THEN "done" ELSE "reading",
                        files |-> files, i |-> 1,
                        overlapped |-> files # <<>> /\ ~NoScanReading]
                  ELSE IF scan[o].pc = "reading" /\ files # <<>>
                  THEN [scan[o] EXCEPT !.overlapped = TRUE]
                  ELSE scan[o]]
    /\ notices' = IF files = <<>> THEN <<Notice("scanned", <<>>, Undefined)>>
                  ELSE <<>>
    /\ last' = NoLast
    /\ UNCHANGED <<settings, linkCache, changeHistory, files, docs, view, cursor>>

\* The awaited vault.read(file) resolves: the content is indexed, and the
\* next read is started or, after the last file, the notice is created.
ScanRead(id) ==
    /\ scan[id].pc = "reading"
    /\ LET file == scan[id].files[scan[id].i]
           finished == scan[id].i = Len(scan[id].files)
       IN  /\ file \in DOMAIN docs
           /\ linkCache' = UpdateLinkCache(linkCache, Content(docs[file]), file,
                                           settings)
           /\ scan' = [scan EXCEPT ![id].i = @ + 1,
                                   ![id].pc = IF finished THEN "done" ELSE "reading"]
           /\ notices' = IF finished THEN <<Notice("scanned", <<>>, Undefined)>>
                         ELSE <<>>
    /\ last' = NoLast
    /\ UNCHANGED <<settings, changeHistory, files, docs, view, cursor>>

\* The awaited vault.read(file) rejects: nothing in scanVaultForLinks
\* catches it, so the call ends there.
ScanReadFail(id) ==
    /\ scan[id].pc = "reading"
    /\ scan' = [scan EXCEPT ![id].pc = "aborted"]
    /\ notices' = <<>>
    /\ last' = NoLast
    /\ UNCHANGED <<settings, linkCache, changeHistory, files, docs, view, cursor>>

NextScan ==
    \/ \E id \in ScanIds : StartScan(id)
    \/ \E id \in ScanIds : ScanRead(id)
    \/ \E id \in ScanIds : ScanReadFail(id)

SpecScan == InitScan /\ [][NextScan]_vars

-----------------------------------------------------------------------------
(* The vault changes between scans *)

\* The texts of the documents of a vault that changes.
RescanTexts == {<<<<"a">>>>, <<<<"b">>>>, <<<<"a", " ", "b">>>>}

\* The plugin is loaded over a vault of two documents, with an empty index.
InitRescan ==
    /\ settings = LoadSettings([minWordLength |-> 1])
    /\ linkCache = EmptyCache
    /\ changeHistory = <<>>
    /\ files = <<Apple, Other>>
    /\ docs \in [Range(files) -> RescanTexts]
    /\ view = NoView
    /\ cursor = 0
    /\ scan = [id \in ScanIds |-> IdleScan]
    /\ notices = <<>>
    /\ last = NoLast

\* A document of the vault is given another text, outside the plugin and
\* while no scan is running: what vault.read returns for it changes.
ModifyFile(p, text) ==
    /\ NoScanReading
    /\ p \in DOMAIN docs
    /\ docs[p] # text
    /\ docs' = [docs EXCEPT ![p] = text]
    /\ notices' = <<>>
    /\ last' = NoLast
    /\ UNCHANGED <<settings, linkCache, changeHistory, files, view, cursor, scan>>

\* A document of the vault is deleted, outside the plugin and while no scan
\* is running: getMarkdownFiles no longer lists it.
DeleteFile(p) ==
    /\ NoScanReading
    /\ p \in Range(files)
    /\ files' = SelectSeq(files, LAMBDA f : f # p)
    /\ docs' = [f \in DOMAIN docs \ {p} |-> docs[f]]
    /\ notices' = <<>>
    /\ last' = NoLast
    /\ UNCHANGED <<settings, linkCache, changeHistory, view, cursor, scan>>

NextRescan ==
    \/ \E id \in ScanIds : StartScan(id)
    \/ \E id \in ScanIds : ScanRead(id)
    \/ \E p \in {Apple, Other}, text \in RescanTexts : ModifyFile(p, text)
    \/ \E p \in {Apple, Other} : DeleteFile(p)

SpecRescan == InitRescan /\ [][NextRescan]_vars

-----------------------------------------------------------------------------
(* The settings tab: AutoLinkSettingTab.display *)

\* The value of a decimal digit.
DigitOf ==
    [c \in {"0", "1", "2", "3", "4", "5", "6", "7", "8", "9"} |->
        CASE c = "0" -> 0 [] c = "1" -> 1 [] c = "2" -> 2 [] c = "3" -> 3
          [] c = "4" -> 4 [] c = "5" -> 5 [] c = "6" -> 6 [] c = "7" -> 7
          [] c = "8" -> 8 [] c = "9" -> 9]

\* What parseInt returns: a number, or NaN for a text with no leading digit.
Number(n) == [isNaN |-> FALSE, value |-> n]

NaN == [isNaN |-> TRUE, value |-> 0]

RECURSIVE SkipSpaces(_)
\* The text without its leading white space.
SkipSpaces(s) == IF s # <<>> /\ IsSpace(Head(s)) THEN SkipSpaces(Tail(s)) ELSE s

RECURSIVE ParseDigits(_, _)
\* The value of the longest prefix of digits of s, after the value acc.
ParseDigits(s, acc) ==
    IF s # <<>> /\ Head(s) \in DOMAIN DigitOf
    THEN ParseDigits(Tail(s), acc * 10 + DigitOf[Head(s)])
    ELSE acc

\* parseInt(value): leading white space skipped, an optional sign, then the
\* longest prefix of decimal digits; NaN when there is no digit.
ParseInt(value) ==
    LET t == SkipSpaces(value)
        signed == t # <<>> /\ Head(t) \in {"+", "-"}
        body == IF signed THEN Tail(t) ELSE t
    IN  IF body = <<>> \/ Head(body) \notin DOMAIN DigitOf THEN NaN
        ELSE IF signed /\ Head(t) = "-" THEN Number(0 - ParseDigits(body, 0))
        ELSE Number(ParseDigits(body, 0))

\* parseInt(value) || 3: NaN and 0 are falsy.
ParseIntOr3(value) ==
    LET n == ParseInt(value) IN IF n.isNaN \/ n.value = 0 THEN 3 ELSE n.value

RECURSIVE SplitCommaFrom(_, _, _)
\* value.split(','), with the current part cur and the parts acc before it.
SplitCommaFrom(s, cur, acc) ==
    IF s = <<>> THEN Append(acc, cur)
    ELSE IF Head(s) = "," THEN SplitCommaFrom(Tail(s), <<>>, Append(acc, cur))
    ELSE SplitCommaFrom(Tail(s), Append(cur, Head(s)), acc)

RECURSIVE TrimEnd(_)
TrimEnd(w) ==
    IF w # <<>> /\ IsSpace(w[Len(w)]) THEN TrimEnd(SubSeq(w, 1, Len(w) - 1)) ELSE w

\* word.trim()
Trim(w) == TrimEnd(SkipSpaces(w))

\* value.split(',').map(word => word.trim()); the array is read through
\* includes only, so it is kept as the set of its elements.
ParseIgnoredWords(value) ==
    LET parts == SplitCommaFrom(value, <<>>, <<>>)
    IN  {Trim(parts[i]) : i \in DOMAIN parts}

\* The text field of the minimum word length changes.
SetMinWordLength(value) ==
    /\ settings' = [settings EXCEPT !.minWordLength = ParseIntOr3(value)]
    /\ notices' = <<>>
    /\ last' = NoLast
    /\ UNCHANGED <<linkCache, changeHistory, files, docs, view, cursor, scan>>

\* The toggle of case sensitivity changes.
SetCaseSensitive(value) ==
    /\ settings' = [settings EXCEPT !.caseSensitive = value]
    /\ notices' = <<>>
    /\ last' = NoLast
    /\ UNCHANGED <<linkCache, changeHistory, files, docs, view, cursor, scan>>

\* The toggle of the scan on load changes.
SetScanOnLoad(value) ==
    /\ settings' = [settings EXCEPT !.scanOnLoad = value]
    /\ notices' = <<>>
    /\ last' = NoLast
    /\ UNCHANGED <<linkCache, changeHistory, files, docs, view, cursor, scan>>

\* The text area of the ignored words changes.
SetIgnoredWords(value) ==
    /\ settings' = [settings EXCEPT !.ignoredWords = ParseIgnoredWords(value)]
    /\ notices' = <<>>
    /\ last' = NoLast
    /\ UNCHANGED <<linkCache, changeHistory, files, docs, view, cursor, scan>>

\* The toggle of auto-linking changes.
SetAutoLinkEnabled(value) ==
    /\ settings' = [settings EXCEPT !.autoLinkEnabled = value]
    /\ notices' = <<>>
    /\ last' = NoLast
    /\ UNCHANGED <<linkCache, changeHistory, files, docs, view, cursor, scan>>

\* Texts entered in the field of the minimum word length: positive, zero,
\* negative, not a number, empty, digits followed by letters.
MinLengthTexts ==
    {<<"1">>, <<"2">>, <<"0">>, <<"-", "1">>, <<"a", "b", "c">>, <<>>,
     <<"1", "2">>, <<" ", "4", "x">>}

\* Texts entered in the area of the ignored words.
IgnoredWordsTexts ==
    {<<>>, <<"b">>, <<"a", ",", " ", "b">>, <<"t", "h", "e", ",", "a", "n", "d">>}

\* The plugin is loaded and the settings tab is open.
InitSettings ==
    /\ settings \in {LoadSettings(d) : d \in LoadedData}
    /\ linkCache = EmptyCache
    /\ changeHistory = <<>>
    /\ files = <<Apple, Other>>
    /\ docs = [p \in {Apple, Other} |-> <<<<"b", " ", "a">>>>]
    /\ view = NoView
    /\ cursor = 0
    /\ scan = [id \in ScanIds |-> IdleScan]
    /\ notices = <<>>
    /\ last = NoLast

NextSettings ==
    \/ \E value \in MinLengthTexts : SetMinWordLength(value)
    \/ \E value \in BOOLEAN : SetCaseSensitive(value)
    \/ \E value \in BOOLEAN : SetScanOnLoad(value)
    \/ \E value \in IgnoredWordsTexts : SetIgnoredWords(value)
    \/ \E value \in BOOLEAN : SetAutoLinkEnabled(value)

SpecSettings == InitSettings /\ [][NextSettings]_vars

-----------------------------------------------------------------------------
(* Scans, edits, pastes, undos and settings changes together *)

\* The plugin is loaded over a vault of two documents with an empty index;
\* other.md is the active view.
InitAll ==
    /\ settings = LoadSettings([minWordLength |-> 1])
    /\ linkCache = EmptyCache
    /\ changeHistory = <<>>
    /\ files = <<Apple, Other>>
    /\ docs \in {[p \in {Apple, Other} |->
                    IF p = Other THEN t ELSE <<<<"b", " ", "a">>>>] :
                 t \in {<<<<"a", " ", "b">>>>, <<<<"A", ".">>>>}}
    /\ view = Other
    /\ cursor = 0
    /\ scan = [id \in ScanIds |-> IdleScan]
    /\ notices = <<>>
    /\ last = NoLast

\* One scan, the handlers of the editor, the commands, and one change of
\* each setting.
NextAll ==
    \/ StartScan(1)
    \/ ScanRead(1)
    \/ EditorChange
    \/ EditorPaste(<<"a">>)
    \/ UndoLastAutoLink
    \/ ToggleAutoLinking
    \/ SetMinWordLength(<<"x">>)
    \/ SetCaseSensitive(TRUE)
    \/ SetScanOnLoad(FALSE)
    \/ SetIgnoredWords(<<"b">>)
    \/ SetAutoLinkEnabled(TRUE)

SpecAll == InitAll /\ [][NextAll]_vars

-----------------------------------------------------------------------------
(* Normalisation of a raw word *)

\* The characters of the raw words: a small letter, a capital letter and two
\* punctuation characters.
WordAlphabet == {"a", "A", ".", "["}

\* Every raw word of one to MaxWordLen characters.
NormWords == UNION {[1..n -> WordAlphabet] : n \in 1..MaxWordLen}

\* The plugin is loaded over a vault whose one document holds one raw word,
\* with case sensitivity on or off, and an empty index.
InitNorm ==
    /\ settings \in {LoadSettings([minWordLength |-> 1, caseSensitive |-> c]) :
                        c \in BOOLEAN}
    /\ linkCache = EmptyCache
    /\ changeHistory = <<>>
    /\ files = <<Apple>>
    /\ docs \in {[p \in {Apple} |-> <<w>>] : w \in NormWords}
    /\ view = NoView
    /\ cursor = 0
    /\ scan = [id \in ScanIds |-> IdleScan]
    /\ notices = <<>>
    /\ last = NoLast

\* The scan normalises the word and stores it.
SpecNorm == InitNorm /\ [][NextScan]_vars

-----------------------------------------------------------------------------
(* Change events repeated on one line *)

\* The workspace fires editor-change again, with the cursor where it was
\* and nothing typed in between.
RepeatedChange ==
    /\ Len(changeHistory) < MaxRepeat
    /\ LET st == OnEditorChange(Before, cursor, view, linkCache, settings)
       IN  /\ docs' = DocsAfter(st)
           /\ changeHistory' = st.history
           /\ notices' = st.notices
           /\ last' = LastOf("change", st)
    /\ UNCHANGED <<settings, linkCache, files, view, cursor, scan>>

SpecRepeat == Init /\ [][RepeatedChange]_vars

-----------------------------------------------------------------------------
(* Properties *)

\* The notices of the last operation that announce a rewrite.
Linked == {notices[i] : i \in {j \in DOMAIN notices : notices[j].kind = "linked"}}

\* The raw words of the cursor's line of the active document.
CursorWords ==
    LET words == Split(GetLine(ActiveDoc, cursor))
    IN  {words[i] : i \in DOMAIN words}

\* The key processLineForLinks looks a raw word up under.
SearchWord(word) ==
    IF settings.caseSensitive THEN CleanWord(word)
    ELSE ToLowerCase(CleanWord(word))

\* The last operation was a change event handled with auto-linking on, and
\* it rewrote nothing.
ChangeRewroteNothing ==
    /\ last.op = "change"
    /\ last.rewrites = 0
    /\ settings.autoLinkEnabled
    /\ view \in DOMAIN docs

\* C1 (as claimed, for the rewrites of a change event): after a change
\* event that applied a rewrite, an immediate undoLastLink on the same
\* document gives back the document and the history stack as they were right
\* before the last rewrite applied.
C1_UndoRestores ==
    (last.op = "change" /\ last.rewrites > 0) =>
        LET u == UndoLastLink(Before, view)
        IN  /\ u.doc = last.preDoc
            /\ u.history = last.preHistory

\* C2: no rewrite announced by the last operation links a word to the
\* document that is active: the owner named in the notice is never the
\* path of the active view.
C2_NoSelfLinks == \A n \in Linked : n.target # view

\* C2 witness: a change event met a word that passes the filters, carries
\* no marker and is owned by the active document, and rewrote nothing.
C2_Witness ==
    /\ ChangeRewroteNothing
    /\ \E w \in CursorWords :
        /\ PassesFilters(CleanWord(w), SearchWord(w), settings)
        /\ CacheGet(linkCache, SearchWord(w)) = view
        /\ ~Includes(w, OpenMarker) /\ ~Includes(w, CloseMarker)

\* C3: no rewrite announced by the last operation is of a raw word that
\* contains [[ or ]].
C3_NoMarkedWord ==
    \A n \in Linked : ~Includes(n.word, OpenMarker) /\ ~Includes(n.word, CloseMarker)

\* C3 witness: a change event met a raw word holding the markers whose term
\* passes the filters and is owned by another document, and rewrote nothing.
C3_Witness ==
    /\ ChangeRewroteNothing
    /\ \E w \in CursorWords :
        /\ PassesFilters(CleanWord(w), SearchWord(w), settings)
        /\ CacheGet(linkCache, SearchWord(w)) \notin {Undefined, view}
        /\ Includes(w, OpenMarker) /\ Includes(w, CloseMarker)

\* C5: while autoLinkEnabled is false, an editor-change event and an
\* editor-paste event leave every document and the history stack unchanged.
C5_DisabledIsInert ==
    [][(~settings.autoLinkEnabled
        /\ (EditorChange \/ \E t \in PasteTexts : EditorPaste(t)))
       => UNCHANGED <<docs, changeHistory>>]_vars

\* C5 witness: a change event was handled with auto-linking off on a line
\* that the handler would rewrite.
C5_Witness ==
    /\ last.op = "change"
    /\ ~settings.autoLinkEnabled
    /\ HandleEditorChange(Before, cursor, view, linkCache, settings).rewrites > 0

\* C6: no rewrite announced by the last operation is of a raw word whose
\* punctuation-stripped form is shorter than minWordLength.
C6_MinLengthRespected ==
    \A n \in Linked : Len(CleanWord(n.word)) >= settings.minWordLength

\* C6 witness: a change event met a word shorter than minWordLength whose
\* term is in the index, owned by another document, and rewrote nothing.
C6_Witness ==
    /\ ChangeRewroteNothing
    /\ \E w \in CursorWords :
        /\ Len(CleanWord(w)) < settings.minWordLength
        /\ SearchWord(w) \notin settings.ignoredWords
        /\ CacheGet(linkCache, SearchWord(w)) \notin {Undefined, view}
        /\ ~Includes(w, OpenMarker) /\ ~Includes(w, CloseMarker)

\* C10: undoLastLink on an empty history stack changes no document, not the
\* index and not the stack, and creates no notice.
C10_EmptyUndoIsNoOp ==
    [][(changeHistory = <<>> /\ UndoLastAutoLink)
       => (UNCHANGED <<docs, linkCache, changeHistory>> /\ notices' = <<>>)]_vars

\* C10 witness: undo ran on an empty stack.
C10_Witness == last.op = "undo" /\ last.preHistory = <<>>

\* C8 (as claimed): with no active markdown view, a change event and an undo
\* leave every document, the index and the history stack unchanged.
C8_NoViewIsNoOp ==
    [][(view = NoView /\ (EditorChange \/ UndoLastAutoLink))
       => UNCHANGED <<docs, linkCache, changeHistory>>]_vars

\* C9: when undoLastLink pops an entry of another document than the active
\* one, no document changes and the stack loses exactly its last entry.
C9_MismatchDiscards ==
    [][(/\ UndoLastAutoLink
        /\ changeHistory # <<>>
        /\ view \in DOMAIN docs
        /\ changeHistory[Len(changeHistory)].file # view)
       => (/\ docs' = docs
           /\ changeHistory' = SubSeq(changeHistory, 1, Len(changeHistory) - 1))]_vars

\* C9 witness: undo popped an entry recorded for another document than the
\* active one.
C9_Witness ==
    /\ last.op = "undo"
    /\ last.preHistory # <<>>
    /\ view \in DOMAIN docs
    /\ last.preHistory[Len(last.preHistory)].file # view

\* The terms updateLinkCache stores for a document.
IndexedTerms(doc, s) ==
    LET words == Split(Content(doc))
    IN  {CacheKey(CleanWord(words[i]), s) :
            i \in {j \in DOMAIN words : MeetsCriteria(CleanWord(words[j]), s)}}

\* The positions in the file list of the documents that hold term t.
Holders(t) == {i \in DOMAIN files : t \in IndexedTerms(docs[files[i]], settings)}

\* The last of them.
LastHolder(t) == CHOOSE j \in Holders(t) : \A k \in Holders(t) : k <= j

\* The scan id ran to its end, and no other scan was started.
ScannedAlone(id) ==
    /\ scan[id].pc = "done"
    /\ \A o \in ScanIds \ {id} : scan[o].pc = "idle"

\* C4: after a complete scan, run on its own, every term of every document
\* that meets the filters is owned by the last document of the list that
\* holds it.
C4_LastScannedOwns ==
    \A id \in ScanIds : ScannedAlone(id) =>
        \A i \in DOMAIN files : \A t \in IndexedTerms(docs[files[i]], settings) :
            /\ t \in DOMAIN linkCache
            /\ linkCache[t] = files[LastHolder(t)]

\* C4 witness: a scan ran alone to its end over a vault in which two
\* documents hold the same term.
C4_Witness ==
    /\ \E id \in ScanIds : ScannedAlone(id)
    /\ \E i, j \in DOMAIN files :
        /\ i < j
        /\ IndexedTerms(docs[files[i]], settings)
             \cap IndexedTerms(docs[files[j]], settings) # {}

\* C7 (as claimed): a scan is not ended by a failed read; a scan that has
\* ended has gone through its whole file list.
C7_ScanSurvivesReadError ==
    \A id \in ScanIds :
        scan[id].pc \in {"done", "aborted"} => scan[id].i > Len(scan[id].files)

\* The last step was the end of a scan: its notice was created.
ScanJustCompleted == notices # <<>> /\ notices[1].kind = "scanned"

\* C11 (as claimed): when a scan of the vault completes, every entry of the
\* index names a document of the file list whose text holds the term; the
\* entries of deleted and of edited documents are gone.
C11_RebuildDropsStale ==
    (ScanJustCompleted /\ NoScanReading) =>
        \A t \in DOMAIN linkCache :
            /\ linkCache[t] \in Range(files)
            /\ t \in IndexedTerms(docs[linkCache[t]], settings)

\* C20 (as claimed): the minimum word length in effect is always an integer
\* of at least 1, whatever text was entered in its field and whatever
\* settings were loaded over the defaults.
C20_MinWordLengthAtLeastOne ==
    /\ settings.minWordLength \in Int
    /\ settings.minWordLength >= 1

\* The scan id indexes a document in this step.
ScanIndexes(id) ==
    /\ scan[id].pc = "reading"
    /\ scan'[id].i = scan[id].i + 1

\* C12: no step of scans, change events, pastes, undos, the toggle command
\* or settings changes removes a key from the index; the owner of a key
\* changes only in a step of a scan that indexes a document holding the
\* term, and becomes that document.
C12_KeysOnlyGrow ==
    [][/\ DOMAIN linkCache \subseteq DOMAIN linkCache'
       /\ \A t \in DOMAIN linkCache :
            linkCache'[t] # linkCache[t] =>
                \E id \in ScanIds :
                    /\ ScanIndexes(id)
                    /\ linkCache'[t] = scan[id].files[scan[id].i]
                    /\ t \in IndexedTerms(docs[scan[id].files[scan[id].i]],
                                          settings)]_vars

\* C12 witness: the scan has ended after it overwrote the owner of a term
\* that both documents hold, a rewrite was applied and a setting changed,
\* and the term stored before the change of setting is still a key.
C12_Witness ==
    /\ scan[1].pc = "done"
    /\ changeHistory # <<>>
    /\ settings.caseSensitive
    /\ \E t \in DOMAIN linkCache :
        /\ linkCache[t] = Other
        /\ t \in IndexedTerms(docs[Apple], settings)

\* The entries a step has put on the history stack, when the stack before
\* the step is a prefix of the stack after it.
Pushed ==
    SubSeq(changeHistory', Len(changeHistory) + 1, Len(changeHistory'))

\* The line under the cursor before the step.
CursorLine == GetLine(ActiveDoc, cursor)

\* C18: the history stack changes by pushes at its end and pops from its
\* end only. A change event or a paste keeps the stack as a prefix and adds
\* one entry for each rewrite it announces, holding the raw word, the
\* active document and, for a change event, the start of the span of the
\* word in the line under the cursor; an undo on a stack that is not empty
\* removes the last entry and no other; scans, the toggle command and
\* settings changes leave the stack as it is.
C18_HistoryPushPop ==
    [][/\ last'.op \in {"change", "paste"} =>
            /\ Len(changeHistory') >= Len(changeHistory)
            /\ SubSeq(changeHistory', 1, Len(changeHistory)) = changeHistory
            /\ Len(Pushed) = Len(notices')
            /\ \A k \in DOMAIN Pushed :
                /\ notices'[k].kind = "linked"
                /\ Pushed[k].text = notices'[k].word
                /\ Pushed[k].file = view
                /\ Pushed[k].position.line >= cursor
                /\ last'.op = "change" =>
                      Pushed[k].position =
                          Pos(cursor, IndexOf(CursorLine, Pushed[k].text))
       /\ last'.op = "undo" =>
            changeHistory' =
                IF changeHistory = <<>> THEN <<>>
                ELSE SubSeq(changeHistory, 1, Len(changeHistory) - 1)
       /\ last'.op = "none" => changeHistory' = changeHistory]_vars

\* C18 witness: a change event has pushed two entries, for two words of the
\* line, on the stack.
C18_Witness ==
    /\ last.op = "change"
    /\ Len(changeHistory) = 2
    /\ changeHistory[1].text # changeHistory[2].text
    /\ changeHistory[1].position.ch < changeHistory[2].position.ch

\* The words of a document: its text split at white space.
WordsOf(doc) == LET words == Split(Content(doc)) IN {words[i] : i \in DOMAIN words}

\* The terms a document is to give under the settings s: for each of its
\* words whose stripped form has the minimum length and, lower-cased, is not
\* an ignored word, the stripped form, lower-cased unless case matters.
FilteredTerms(doc, s) ==
    {IF s.caseSensitive THEN CleanWord(w) ELSE ToLowerCase(CleanWord(w)) :
        w \in {x \in WordsOf(doc) :
                 /\ Len(CleanWord(x)) >= s.minWordLength
                 /\ ToLowerCase(CleanWord(x)) \notin s.ignoredWords}}

\* C13: after a scan that started from the empty index and ran alone to its
\* end, the keys of the index are exactly the terms of the words of the
\* scanned documents that pass the length and ignored-word filters.
C13_OnlyFilteredTerms ==
    \A id \in ScanIds : ScannedAlone(id) =>
        DOMAIN linkCache =
            UNION {FilteredTerms(docs[f], settings) : f \in Range(files)}

\* C13 witness: under the default settings a scan ran alone over a vault
\* with The Banana Tree, and the keys are banana and tree.
C13_Witness ==
    /\ settings = DEFAULT_SETTINGS
    /\ \E id \in ScanIds : ScannedAlone(id)
    /\ docs[Apple] = BananaTree
    /\ DOMAIN linkCache = {<<"b", "a", "n", "a", "n", "a">>, <<"t", "r", "e", "e">>}

RECURSIVE SequentialScan(_, _)
\* The index one scan of the file list gives, run alone from file i on over
\* the index cache.
SequentialScan(cache, i) ==
    IF i > Len(files) THEN cache
    ELSE SequentialScan(
             UpdateLinkCache(cache, Content(docs[files[i]]), files[i], settings),
             i + 1)

\* Scans whose reads were interleaved have all run to their end, and no
\* other scan is running or was aborted.
OverlappedScansDone ==
    /\ \A id \in ScanIds : scan[id].pc \in {"idle", "done"}
    /\ \E id \in ScanIds : scan[id].pc = "done" /\ scan[id].overlapped

\* C19: once scans of the same unchanged file list whose reads were
\* interleaved have all ended, the index is the one a single scan of the
\* list gives.
C19_OverlapIsHarmless ==
    OverlappedScansDone => linkCache = SequentialScan(EmptyCache, 1)

\* C19 witness: two interleaved scans have ended over a vault in which two
\* documents hold the same term.
C19_Witness ==
    /\ OverlappedScansDone
    /\ \E i, j \in DOMAIN files :
        /\ i < j
        /\ FilteredTerms(docs[files[i]], settings)
             \cap FilteredTerms(docs[files[j]], settings) # {}

\* The term of a raw word: its punctuation stripped at both ends, then
\* lower-cased unless case matters.
Normalize(w, s) ==
    IF s.caseSensitive THEN CleanWord(w) ELSE ToLowerCase(CleanWord(w))

\* C14: normalising a term again gives the same term, for every raw word and
\* both values of caseSensitive: each word of a document and each key the
\* scan has stored is a fixed point of the normalisation once normalised.
C14_NormalizeIdempotent ==
    /\ \A f \in DOMAIN docs : \A w \in WordsOf(docs[f]) :
        Normalize(Normalize(w, settings), settings) = Normalize(w, settings)
    /\ \A k \in DOMAIN linkCache : Normalize(k, settings) = k

\* C14 witness: a word with punctuation at both ends and a capital letter was
\* scanned with case sensitivity off, and its stored key is the letter.
C14_Witness ==
    /\ ~settings.caseSensitive
    /\ docs[Apple] = <<<<"[", "A", ".">>>>
    /\ DOMAIN linkCache = {<<"a">>}

\* The raw word is one the handler rewrites: its term passes the filters and
\* is owned by another document, and the word holds no marker.
Matched(word) ==
    /\ PassesFilters(CleanWord(word), SearchWord(word), settings)
    /\ IsLinkable(word, CacheGet(linkCache, SearchWord(word)), view)

\* The raw word as the processed line is to show it.
Wrapped(word) == IF word # <<>> /\ Matched(word) THEN LinkedText(word) ELSE word

RECURSIVE WrapFrom(_, _, _, _)
\* The line with each matched word between the markers and every other
\* character as it is, from character i on, with the word cur being read
\* and the text acc before it.
WrapFrom(line, i, cur, acc) ==
    IF i > Len(line) THEN acc \o Wrapped(cur)
    ELSE IF IsSpace(line[i])
    THEN WrapFrom(line, i + 1, <<>>, acc \o Wrapped(cur) \o <<line[i]>>)
    ELSE WrapFrom(line, i + 1, Append(cur, line[i]), acc)

\* C15 (as claimed): in a change event that rewrites, the text in the span
\* replaced is the raw word (observed on the last rewrite of the event), and
\* the line afterwards is the line before the event with each matched word
\* between the markers and nothing else changed.
C15_RewritesHitTheirWords ==
    [][(EditorChange /\ last'.rewrites > 0) =>
          LET e == changeHistory'[Len(changeHistory')]
              spanLine == GetLine(last'.preDoc, e.position.line)
          IN  /\ SubSeq(spanLine, e.position.ch + 1,
                        e.position.ch + Len(e.text)) = e.text
              /\ GetLine(docs'[view], cursor) = WrapFrom(CursorLine, 1, <<>>, <<>>)
      ]_vars

\* Some line of the document holds markers inside markers.
Nested(doc) ==
    \E n \in DOMAIN doc :
        \/ Includes(doc[n], OpenMarker \o OpenMarker)
        \/ Includes(doc[n], CloseMarker \o CloseMarker)

\* C16 (as claimed): a change event on a document without nested markers
\* leaves it without nested markers.
C16_NoNestedMarkers ==
    [][(EditorChange /\ ~Nested(ActiveDoc)) => ~Nested(docs'[view])]_vars

\* A change event on the line under the cursor would rewrite nothing.
Stable == OnEditorChange(Before, cursor, view, linkCache, settings).rewrites = 0

\* C17 (as claimed, for the repetitions the model follows): change events
\* repeated on a line, with no edit in between, come to rest; on a line of
\* at most two words, once MaxRepeat rewrites have been applied a further
\* change event rewrites nothing.
C17_ChangeEventsStabilise == Len(changeHistory) >= MaxRepeat => Stable

=============================================================================
